---- MODULE Spec2Model ----
(***************************************************************************)
(* Captive-portal auto-login agent (main.py: Windows variant, main_mac.py: *)
(* unified/macOS variant).  The module models the monitor loop main_loop   *)
(* and the orchestrator handle_portal_login of both variants as one state  *)
(* machine whose program counter follows the statements of the source.     *)
(* The browser, the portal page, the network-identity provider and the     *)
(* reachability endpoint are the environment: their answers are chosen     *)
(* nondeterministically, including faults (exceptions the callee does not  *)
(* catch).                                                                 *)
(***************************************************************************)
EXTENDS Integers, Sequences, FiniteSets, TLC

VARIABLES
    variant,       \* "win" = src/main.py, "mac" = src/main_mac.py
    username,      \* os.getenv(USERNAME_ENV): None, "" or a value
    password,      \* os.getenv(PASSWORD_ENV)
    network,       \* network the host is associated with in this iteration
    pc,            \* position of the single thread of control
    ssid,          \* local ssid of main_loop
    probe,         \* answer of the loop's reachability probe in this iteration
    runs,          \* handle_portal_login invocations in this iteration
    activeRuns,    \* handle_portal_login frames currently on the stack
    sessions,      \* browser sessions currently open
    created,       \* browser sessions created in this iteration
    page,          \* what the current browsing context shows
    events,        \* driver calls and emitted log records of this iteration
    outcome,       \* terminal state of the run of this iteration
    exc,           \* TRUE while an exception is propagating
    elapsed,       \* ticks since start_ts of the post-submit polling
    lastPoll,      \* answer of the latest probe of the post-submit polling
    pollFailLogged, \* a probe of the polling emitted its failure record
    locateFrame,   \* a call of _locate_nearby_input on a page tree
    fillFrame,     \* a call sequence of fill_field on one control
    revealFrame,   \* a call of hover_to_reveal
    onlineFrame,   \* a call of is_online (main_mac.py)
    logoutFrame,   \* a call of attempt_logout
    loggedInFrame, \* a call of is_logged_in and the branch taken on it
    openFrame,     \* calls of open_portal_fresh_tab in one session
    pairFrame      \* main.py and main_mac.py run against one environment

vars == << variant, username, password, network, pc, ssid, probe, runs,
           activeRuns, sessions, created, page, events, outcome, exc,
           elapsed, lastPoll, pollFailLogged,
           locateFrame, fillFrame, revealFrame, onlineFrame,
           logoutFrame, loggedInFrame, openFrame, pairFrame >>

\* the frames of the functions studied on their own; main_loop and
\* handle_portal_login treat these functions as single steps
unitVars == << locateFrame, fillFrame, revealFrame, onlineFrame,
              logoutFrame, loggedInFrame, openFrame, pairFrame >>
uiVars == << logoutFrame, loggedInFrame, openFrame, pairFrame >>
Idle == [pc |-> "idle"]
UiIdle ==
    /\ logoutFrame = Idle
    /\ loggedInFrame = Idle
    /\ openFrame = Idle
    /\ pairFrame = Idle
UnitsIdle ==
    /\ locateFrame = Idle
    /\ fillFrame = Idle
    /\ revealFrame = Idle
    /\ onlineFrame = Idle
    /\ UiIdle

----------------------------------------------------------------------------
(* Bounds of the environment                                               *)

\* a reachability probe takes 0..MaxProbeTicks ticks (one tick = 0.5 s)
MaxProbeTicks == 1

----------------------------------------------------------------------------
(* Configuration and constants of the program                              *)

None == "None"
TARGET_WIFI_SSID == "wifi_name"
Networks == {None, "other", TARGET_WIFI_SSID}
EnvValues == {None, "", "secret"}
Variants == {"win", "mac"}

\* while time.time() - start_ts < 10, in ticks of 0.5 s
PollCeilingTicks == 20
\* time.sleep(0.5) between two probes
PollSleepTicks == 1

\* logging.basicConfig(level=logging.INFO): DEBUG records are dropped
Emitted(level) == level \in {"INFO", "WARNING", "ERROR"}

Ev(op, res) == [op |-> op, res |-> res]
Log(level, msg, ev) == IF Emitted(level) THEN Append(ev, Ev("log", msg)) ELSE ev

LogoutStates == {"absent", "hidden", "visible"}
Pages == [userAnchor : BOOLEAN, passAnchor : BOOLEAN, logout : LogoutStates]
BlankPage == [userAnchor |-> FALSE, passAnchor |-> FALSE, logout |-> "absent"]

----------------------------------------------------------------------------
(* Initial state: main_loop is about to enter its first iteration          *)

Init ==
    /\ variant \in Variants
    /\ username \in EnvValues
    /\ password \in EnvValues
    /\ network \in Networks
    /\ pc = "loop_top"
    /\ ssid = None
    /\ probe = "none"
    /\ runs = 0
    /\ activeRuns = 0
    /\ sessions = 0
    /\ created = 0
    /\ page = BlankPage
    /\ events = << >>
    /\ outcome = "none"
    /\ exc = FALSE
    /\ elapsed = 0
    /\ lastPoll = "none"
    /\ pollFailLogged = FALSE
    /\ UnitsIdle

----------------------------------------------------------------------------
(* Reachability probe                                                      *)

\* what requests.get can do: answer with a status code, raise a
\* requests.RequestException (caught), or raise anything else (not caught)
StatusCodes == {200, 302, 400, 503}
Responses == [kind : {"status"}, code : StatusCodes]
             \cup {[kind |-> "RequestException", code |-> 0],
                   [kind |-> "fault", code |-> 0]}

\* has_internet_connectivity: status < 400 is online, an exception offline
has_internet_connectivity(r) == r.kind = "status" /\ r.code < 400

\* is_online (main_mac.py) returns has_internet_connectivity()
is_online(r) == has_internet_connectivity(r)

\* the probe main_loop and the polling loop call in each variant
Reachable(v, r) == IF v = "mac" THEN is_online(r) ELSE has_internet_connectivity(r)

\* the record has_internet_connectivity emits for r
ProbeLog(r, ev) ==
    IF r.kind = "RequestException"
    THEN Log("INFO", "connectivity_check_failed", ev)
    ELSE Log("DEBUG", "status_code", ev)

----------------------------------------------------------------------------
(* main_loop                                                               *)

\* the branch of main_loop on the probe's answer
NeedsLogin_Always(online) == TRUE
NeedsLogin(online) == ~online

\* the name main_loop compares with TARGET_WIFI_SSID
current_ssid(v, n) == IF v = "mac" THEN TARGET_WIFI_SSID ELSE n

\* ssid = get_current_ssid()  (main_mac.py: ssid = TARGET_WIFI_SSID)
ReadIdentity ==
    /\ pc = "loop_top"
    /\ \/ /\ ssid' = current_ssid(variant, network)
          /\ pc' = "ssid_read"
          /\ \E netshFailed \in BOOLEAN :
                events' = IF variant = "win" /\ network = None /\ netshFailed
                          THEN Log("ERROR", "netsh_failed", events)
                          ELSE Log("DEBUG", "ssid", events)
          /\ UNCHANGED exc
       \/ /\ variant = "win"
          /\ exc' = TRUE
          /\ pc' = "except"
          /\ UNCHANGED << ssid, events >>
    /\ UNCHANGED unitVars
    /\ UNCHANGED << variant, username, password, network, probe, runs,
                    activeRuns, sessions, created, page, outcome, elapsed,
                    lastPoll, pollFailLogged >>

\* if ssid == TARGET_WIFI_SSID: ... else: skip
CompareSsid ==
    /\ pc = "ssid_read"
    /\ pc' = IF ssid = TARGET_WIFI_SSID THEN "reachability" ELSE "sleep"
    /\ events' = Log("DEBUG", "ssid_compared", events)
    /\ UNCHANGED unitVars
    /\ UNCHANGED << variant, username, password, network, ssid, probe, runs,
                    activeRuns, sessions, created, page, outcome, exc,
                    elapsed, lastPoll, pollFailLogged >>

\* if has_internet_connectivity(): ... else: handle_portal_login()
LoopProbe ==
    /\ pc = "reachability"
    /\ \E r \in Responses :
         IF r.kind = "fault"
         THEN /\ probe' = "fault"
              /\ exc' = TRUE
              /\ pc' = "except"
              /\ UNCHANGED << events, runs, activeRuns >>
         ELSE /\ probe' = IF Reachable(variant, r) THEN "true" ELSE "false"
              /\ UNCHANGED exc
              /\ IF NeedsLogin(Reachable(variant, r))
                 THEN /\ events' = Log("WARNING", "offline_start_login",
                                       ProbeLog(r, events))
                      /\ runs' = runs + 1
                      /\ activeRuns' = activeRuns + 1
                      /\ pc' = "login_start"
                 ELSE /\ events' = Log("INFO", "online_nothing_to_do",
                                       ProbeLog(r, events))
                      /\ pc' = "sleep"
                      /\ UNCHANGED << runs, activeRuns >>
    /\ UNCHANGED unitVars
    /\ UNCHANGED << variant, username, password, network, ssid, sessions,
                    created, page, outcome, elapsed, lastPoll, pollFailLogged >>

----------------------------------------------------------------------------
(* Page probes and UI primitives, as functions of the page                 *)

\* wait_for_login_form: the username anchor, then the password anchor; the
\* TimeoutException of either wait is caught and gives False
wait_for_login_form_FirstAnchorOnly(p) == p.userAnchor
wait_for_login_form(p) == p.userAnchor /\ p.passAnchor

\* is_login_form_present returns wait_for_login_form with a shorter timeout
is_login_form_present(p) == wait_for_login_form(p)

\* hover_to_reveal on the logout control: hover events and forced styles can
\* turn a hidden control visible (works), and do nothing to an absent one
hover_to_reveal(p, works) ==
    IF p.logout = "hidden" /\ works THEN [p EXCEPT !.logout = "visible"] ELSE p

\* the visibility wait of is_logged_in, after the reveal
logout_visible(p) == p.logout = "visible"

\* which probe handle_portal_login runs first after driver.get
FirstProbe_FormFirst(v) == "is_login_form_present"
FirstProbe(v) == IF v = "mac" THEN "is_logged_in" ELSE "is_login_form_present"

\* the probe run at position at (first_probe or second_probe)
ProbeAt(v, at) ==
    IF at = "first_probe" THEN FirstProbe(v)
    ELSE IF FirstProbe(v) = "is_logged_in" THEN "is_login_form_present"
         ELSE "is_logged_in"

\* if not username or not password
CredentialsMissing_NoneOnly(u, p) == u = None \/ p = None
CredentialsMissing(u, p) == u \in {None, ""} \/ p \in {None, ""}

\* if not fill_field(...): return   /   if not try_click(...): return
StepAfter_NoAbort(ok, next) == next
StepAfter(ok, next) == IF ok THEN next ELSE "finally"

\* if not wait_for_login_form(driver, ...): one more logout-and-reopen cycle
AfterFirstWait_LogoutAgain(found) == IF found THEN "fill_user" ELSE "logout_li"
AfterFirstWait(found) == IF found THEN "fill_user" ELSE "logout2"

\* if not wait_for_login_form(driver, timeout_s=6): ... return
AfterLastWait_NoReturn(found) == "fill_user"
AfterLastWait(found) == IF found THEN "fill_user" ELSE "finally"

----------------------------------------------------------------------------
(* handle_portal_login                                                     *)

\* an exception leaves the try block: the finally clause runs next
Raise(ev) ==
    /\ events' = ev
    /\ exc' = TRUE
    /\ outcome' = "exception"
    /\ pc' = "finally"

\* username/password lookup and the missing-credentials return
CheckCredentials ==
    /\ pc = "login_start"
    /\ IF CredentialsMissing(username, password)
       THEN /\ events' = Log("ERROR", "missing_credentials", events)
            /\ outcome' = "configuration_missing"
            /\ activeRuns' = activeRuns - 1
            /\ pc' = "sleep"
       ELSE /\ pc' = "create"
            /\ UNCHANGED << events, outcome, activeRuns >>
    /\ UNCHANGED unitVars
    /\ UNCHANGED << variant, username, password, network, ssid, probe, runs,
                    sessions, created, page, exc, elapsed, lastPoll,
                    pollFailLogged >>

\* except WebDriverException as exc: logging.error(...); return
AfterCreateFailure_FallThrough == "navigate"
AfterCreateFailure == "sleep"

\* driver = create_webdriver(), outside the try/finally
CreateWebdriver ==
    /\ pc = "create"
    /\ \E r \in {"ok", "WebDriverException", "fault"} :
         LET ev == Append(Log("INFO", "starting_chrome", events),
                          Ev("create_webdriver", r))
         IN  \/ /\ r = "ok"
                /\ sessions' = sessions + 1
                /\ created' = created + 1
                /\ events' = ev
                /\ pc' = "navigate"
                /\ UNCHANGED << outcome, activeRuns, exc >>
             \/ /\ r = "WebDriverException"
                /\ events' = Log("ERROR", "webdriver_init_failed", ev)
                /\ outcome' = "session_init_failure"
                /\ activeRuns' = activeRuns - 1
                /\ pc' = AfterCreateFailure
                /\ UNCHANGED << sessions, created, exc >>
             \/ /\ r = "fault"
                /\ events' = ev
                /\ outcome' = "exception"
                /\ exc' = TRUE
                /\ activeRuns' = activeRuns - 1
                /\ pc' = "except"
                /\ UNCHANGED << sessions, created >>
    /\ UNCHANGED unitVars
    /\ UNCHANGED << variant, username, password, network, ssid, probe, runs,
                    page, elapsed, lastPoll, pollFailLogged >>

\* driver.set_page_load_timeout(...); driver.get(PORTAL_URL)
Navigate ==
    /\ pc = "navigate"
    /\ LET ev == Log("INFO", "visit_portal", events)
       IN  \/ /\ events' = Append(ev, Ev("get", "ok"))
              /\ page' \in Pages
              /\ pc' = "first_probe"
              /\ UNCHANGED << outcome, exc >>
           \/ /\ Raise(Append(ev, Ev("get", "raise")))
              /\ UNCHANGED page
    /\ UNCHANGED unitVars
    /\ UNCHANGED << variant, username, password, network, ssid, probe, runs,
                    activeRuns, sessions, created, elapsed, lastPoll,
                    pollFailLogged >>

\* is_login_form_present(driver, quick_timeout_s=...) and its branch
IsLoginFormPresent ==
    /\ pc \in {"first_probe", "second_probe"}
    /\ ProbeAt(variant, pc) = "is_login_form_present"
    /\ \/ LET found == is_login_form_present(page)
              ev == Append(events, Ev("is_login_form_present",
                                      IF found THEN "true" ELSE "false"))
          IN  /\ events' = IF found /\ variant = "win"
                           THEN Log("INFO", "login_form_detected", ev) ELSE ev
              /\ pc' = IF found THEN "fill_user"
                       ELSE IF pc = "first_probe" THEN "second_probe"
                       ELSE "open1"
              /\ UNCHANGED << outcome, exc >>
       \/ Raise(Append(events, Ev("is_login_form_present", "raise")))
    /\ UNCHANGED unitVars
    /\ UNCHANGED << variant, username, password, network, ssid, probe, runs,
                    activeRuns, sessions, created, page, elapsed, lastPoll,
                    pollFailLogged >>

\* is_logged_in(driver, quick_timeout_s=...) and its branch
IsLoggedIn ==
    /\ pc \in {"first_probe", "second_probe"}
    /\ ProbeAt(variant, pc) = "is_logged_in"
    /\ \E works \in BOOLEAN :
         LET revealed == hover_to_reveal(page, works)
             seen == logout_visible(revealed)
             ev == Append(events, Ev("is_logged_in",
                                     IF seen THEN "true" ELSE "false"))
         IN  /\ page' = revealed
             /\ \/ /\ events' = IF seen
                                THEN Log("INFO", "logged_in_detected", ev)
                                ELSE IF variant = "win"
                                THEN Log("INFO", "neither_state_detected", ev)
                                ELSE ev
                   /\ pc' = IF seen THEN "logout_li"
                            ELSE IF pc = "first_probe" THEN "second_probe"
                            ELSE "open1"
                   /\ UNCHANGED << outcome, exc >>
                \/ Raise(Append(events, Ev("is_logged_in", "raise")))
    /\ UNCHANGED unitVars
    /\ UNCHANGED << variant, username, password, network, ssid, probe, runs,
                    activeRuns, sessions, created, elapsed, lastPoll,
                    pollFailLogged >>

\* the statement after attempt_logout(...) at position at: the call is a
\* statement of its own, open_portal_fresh_tab follows whatever it returned
AfterLogout_ReopenOnSuccess(v, at, ok) ==
    IF at = "logout2" THEN (IF ok THEN "open2" ELSE "wait2")
    ELSE IF v = "mac" THEN (IF ok THEN "open_li" ELSE "wait_li")
    ELSE (IF ok THEN "open1" ELSE "wait1")
AfterLogout(v, at, ok) ==
    IF at = "logout2" THEN "open2"
    ELSE IF v = "mac" THEN "open_li"
    ELSE "open1"

\* attempt_logout(driver, retries=...) at position at; its result is not used
AttemptLogout(at) ==
    /\ pc = at
    /\ \E works \in BOOLEAN, r \in {"true", "false", "raise"} :
         LET revealed == hover_to_reveal(page, works)
             ev == Append(events, Ev("attempt_logout", r))
         IN  /\ r = "true" => revealed.logout # "absent"
             /\ page' = revealed
             /\ IF r = "raise"
                THEN Raise(ev)
                ELSE /\ events' = Log("INFO",
                                      IF r = "true" THEN "logout_triggered"
                                      ELSE "no_logout_button", ev)
                     /\ pc' = AfterLogout(variant, at, r = "true")
                     /\ UNCHANGED << outcome, exc >>
    /\ UNCHANGED unitVars
    /\ UNCHANGED << variant, username, password, network, ssid, probe, runs,
                    activeRuns, sessions, created, elapsed, lastPoll,
                    pollFailLogged >>

\* open_portal_fresh_tab(driver) at position at: a new tab, or on a
\* WebDriverException a reload of the current tab, in the same session
OpenPortalFreshTab(at) ==
    /\ pc = at
    /\ \E r \in {"new_tab", "reload", "raise"} :
         LET ev == Append(events, Ev("open_portal_fresh_tab", r))
         IN  IF r = "raise"
             THEN Raise(ev) /\ UNCHANGED page
             ELSE /\ events' = IF r = "new_tab"
                               THEN Log("INFO", "opened_new_tab", ev)
                               ELSE Log("WARNING", "new_tab_failed", ev)
                  /\ page' \in Pages
                  /\ pc' = IF at = "open_li" THEN "wait_li"
                           ELSE IF at = "open1" THEN "wait1" ELSE "wait2"
                  /\ UNCHANGED << outcome, exc >>
    /\ UNCHANGED unitVars
    /\ UNCHANGED << variant, username, password, network, ssid, probe, runs,
                    activeRuns, sessions, created, elapsed, lastPoll,
                    pollFailLogged >>

\* wait_for_login_form(driver, timeout_s=...) at position at and its branch
WaitForLoginForm(at) ==
    /\ pc = at
    /\ \/ LET found == wait_for_login_form(page)
              ev == Append(events, Ev("wait_for_login_form",
                                      IF found THEN "true" ELSE "false"))
          IN  IF at = "wait1"
              THEN /\ pc' = AfterFirstWait(found)
                   /\ events' = IF ~found /\ variant = "win"
                                THEN Log("INFO", "form_absent_last_try", ev)
                                ELSE ev
                   /\ UNCHANGED << outcome, exc >>
              ELSE /\ pc' = AfterLastWait(found)
                   /\ events' = IF found THEN ev
                                ELSE Log("ERROR", "login_form_unreachable", ev)
                   /\ outcome' = IF found THEN outcome ELSE "no_login_form"
                   /\ UNCHANGED exc
       \/ Raise(Append(events, Ev("wait_for_login_form", "raise")))
    /\ UNCHANGED unitVars
    /\ UNCHANGED << variant, username, password, network, ssid, probe, runs,
                    activeRuns, sessions, created, page, elapsed, lastPoll,
                    pollFailLogged >>

\* fill_field(driver, xpath, value) for the field at position at
FillField(at) ==
    /\ pc = at
    /\ \E r \in {"true", "false", "raise"} :
         LET op == IF at = "fill_user" THEN "fill_username" ELSE "fill_password"
             ev == Append(events, Ev(op, r))
         IN  /\ r = "true" => IF at = "fill_user" THEN page.userAnchor
                              ELSE page.passAnchor
             /\ IF r = "raise"
                THEN Raise(ev)
                ELSE /\ pc' = StepAfter(r = "true",
                                IF at = "fill_user" THEN "fill_pass"
                                ELSE "submit")
                     /\ events' = IF r = "true"
                                  THEN Log("INFO", "field_filled", ev)
                                  ELSE Log("ERROR", op \o "_failed",
                                           Log("ERROR", "field_not_filled", ev))
                     /\ outcome' = IF r = "true" THEN outcome
                                   ELSE op \o "_failed"
                     /\ UNCHANGED exc
    /\ UNCHANGED unitVars
    /\ UNCHANGED << variant, username, password, network, ssid, probe, runs,
                    activeRuns, sessions, created, page, elapsed, lastPoll,
                    pollFailLogged >>

\* try_click(driver, login_button_xpath); on success start_ts = time.time()
Submit ==
    /\ pc = "submit"
    /\ \E r \in {"true", "false", "raise"} :
         LET ev == Append(events, Ev("click_submit", r))
         IN  IF r = "raise"
             THEN Raise(ev) /\ UNCHANGED elapsed
             ELSE /\ pc' = StepAfter(r = "true", "poll")
                  /\ events' = IF r = "true"
                               THEN Log("INFO", "login_submitted",
                                        Log("INFO", "clicked", ev))
                               ELSE Log("ERROR", "click_login_failed",
                                        Log("INFO", "click_not_done", ev))
                  /\ outcome' = IF r = "true" THEN outcome ELSE "submit_failed"
                  /\ elapsed' = 0
                  /\ UNCHANGED exc
    /\ UNCHANGED unitVars
    /\ UNCHANGED << variant, username, password, network, ssid, probe, runs,
                    activeRuns, sessions, created, page, lastPoll,
                    pollFailLogged >>

\* if has_internet_connectivity(): ... break   (main_mac.py: is_online())
AfterProbe_KeepPolling(online) == "poll"
AfterProbe(online) == IF online THEN "finally" ELSE "poll"

\* time.time() - start_ts after a probe that took d ticks and the sleep
AfterPollSleep_Wraps(e, d) == (e + d + PollSleepTicks) % PollCeilingTicks
AfterPollSleep(e, d) == e + d + PollSleepTicks

\* one round of: while time.time() - start_ts < 10: probe, break or sleep.
\* The records of the probes made here are kept in pollFailLogged.
PollProbe ==
    /\ pc = "poll"
    /\ elapsed < PollCeilingTicks
    /\ \E r \in Responses, d \in 0..MaxProbeTicks :
         IF r.kind = "fault"
         THEN /\ Raise(Append(events, Ev("poll", "raise")))
              /\ UNCHANGED << elapsed, lastPoll, pollFailLogged >>
         ELSE /\ lastPoll' = IF Reachable(variant, r) THEN "online"
                              ELSE "offline"
              /\ pollFailLogged' = (pollFailLogged \/ r.kind = "RequestException")
              /\ UNCHANGED exc
              /\ pc' = AfterProbe(Reachable(variant, r))
              /\ IF Reachable(variant, r)
                 THEN /\ events' = Log("INFO", "connectivity_recovered", events)
                      /\ outcome' = "recovered"
                      /\ elapsed' = elapsed + d
                 ELSE /\ elapsed' = AfterPollSleep(elapsed, d)
                      /\ UNCHANGED << events, outcome >>
    /\ UNCHANGED unitVars
    /\ UNCHANGED << variant, username, password, network, ssid, probe, runs,
                    activeRuns, sessions, created, page >>

\* the while condition is false: the loop ends without a break
PollExhausted ==
    /\ pc = "poll"
    /\ elapsed >= PollCeilingTicks
    /\ outcome' = "unrecovered"
    /\ pc' = "finally"
    /\ UNCHANGED unitVars
    /\ UNCHANGED << variant, username, password, network, ssid, probe, runs,
                    activeRuns, sessions, created, page, events, exc, elapsed,
                    lastPoll, pollFailLogged >>

\* driver.quit(): the number of open sessions after the call
driver_quit_Leak(n) == n
driver_quit(n) == n - 1

\* finally: driver.quit(); logging.info(...), then return or propagate.
\* quit ends the session also when it reports an error (the driver service
\* is stopped regardless); its error propagates to main_loop.
FinallyQuit_OnlyOnReturn ==
    /\ pc = "finally"
    /\ IF exc
       THEN /\ pc' = "except"
            /\ UNCHANGED << sessions, events >>
       ELSE /\ pc' = "sleep"
            /\ sessions' = driver_quit(sessions)
            /\ events' = Log("INFO", "browser_closed",
                             Append(events, Ev("quit", "ok")))
    /\ activeRuns' = activeRuns - 1
    /\ UNCHANGED unitVars
    /\ UNCHANGED << variant, username, password, network, ssid, probe, runs,
                    created, page, outcome, exc, elapsed, lastPoll, pollFailLogged >>

FinallyQuit ==
    /\ pc = "finally"
    /\ sessions' = driver_quit(sessions)
    /\ activeRuns' = activeRuns - 1
    /\ \E r \in {"ok", "raise"} :
         /\ events' = IF r = "ok"
                      THEN Log("INFO", "browser_closed",
                               Append(events, Ev("quit", r)))
                      ELSE Append(events, Ev("quit", r))
         /\ exc' = (exc \/ r = "raise")
         /\ pc' = IF exc \/ r = "raise" THEN "except" ELSE "sleep"
    /\ UNCHANGED unitVars
    /\ UNCHANGED << variant, username, password, network, ssid, probe, runs,
                    created, page, outcome, elapsed, lastPoll, pollFailLogged >>

\* except Exception as exc: logging.exception(...)
ExceptHandler_Reraise ==
    /\ pc = "except"
    /\ pc' = "crashed"
    /\ events' = Log("ERROR", "loop_exception", events)
    /\ UNCHANGED unitVars
    /\ UNCHANGED << variant, username, password, network, ssid, probe, runs,
                    activeRuns, sessions, created, page, outcome, exc,
                    elapsed, lastPoll, pollFailLogged >>

ExceptHandler ==
    /\ pc = "except"
    /\ exc' = FALSE
    /\ events' = Log("ERROR", "loop_exception", events)
    /\ pc' = "sleep"
    /\ UNCHANGED unitVars
    /\ UNCHANGED << variant, username, password, network, ssid, probe, runs,
                    activeRuns, sessions, created, page, outcome, elapsed,
                    lastPoll, pollFailLogged >>

\* time.sleep(CHECK_INTERVAL_SECONDS), then the next iteration; nothing of
\* an iteration but the configuration survives it
Sleep ==
    /\ pc = "sleep"
    /\ pc' = "loop_top"
    /\ network' \in Networks
    /\ ssid' = None
    /\ probe' = "none"
    /\ runs' = 0
    /\ created' = 0
    /\ page' = BlankPage
    /\ events' = << >>
    /\ outcome' = "none"
    /\ elapsed' = 0
    /\ lastPoll' = "none"
    /\ pollFailLogged' = FALSE
    /\ UNCHANGED unitVars
    /\ UNCHANGED << variant, username, password, activeRuns, sessions, exc >>

----------------------------------------------------------------------------
(* Specification                                                           *)

Next ==
    \/ ReadIdentity
    \/ CompareSsid
    \/ LoopProbe
    \/ CheckCredentials
    \/ CreateWebdriver
    \/ Navigate
    \/ IsLoginFormPresent
    \/ IsLoggedIn
    \/ \E at \in {"logout_li", "logout2"} : AttemptLogout(at)
    \/ \E at \in {"open_li", "open1", "open2"} : OpenPortalFreshTab(at)
    \/ \E at \in {"wait_li", "wait1", "wait2"} : WaitForLoginForm(at)
    \/ \E at \in {"fill_user", "fill_pass"} : FillField(at)
    \/ Submit
    \/ PollProbe
    \/ PollExhausted
    \/ FinallyQuit
    \/ ExceptHandler
    \/ Sleep

Spec == Init /\ [][Next]_vars

\* main_loop is the only thread and every call it makes returns or raises
\* within its timeout: a step that is possible is eventually taken
FairSpec == Spec /\ WF_vars(Next)

----------------------------------------------------------------------------
(* Reading the record of an iteration                                      *)

Idx(op) == {i \in 1..Len(events) : events[i].op = op}
Has(op) == Idx(op) # {}
Did(op, res) == \E i \in 1..Len(events) : events[i] = Ev(op, res)
Logged(msg) == Did("log", msg)
\* every op event is preceded by an event (op0, res0)
Preceded(op, op0, res0) ==
    \A i \in Idx(op) : \E j \in 1..(i - 1) : events[j] = Ev(op0, res0)
FormProbes == {"is_login_form_present", "wait_for_login_form"}
UiOps == {"get", "is_login_form_present", "is_logged_in", "attempt_logout",
          "open_portal_fresh_tab", "wait_for_login_form", "fill_username",
          "fill_password", "click_submit"}

----------------------------------------------------------------------------
(* Claims                                                                  *)

\* C1: a run of handle_portal_login that created a browser session has
\* called driver.quit and left no session open once it has returned or
\* propagated, whatever its exit path (form never reached, a fill failed,
\* the submit click failed, recovered, ceiling exhausted, exception).
C1_SessionClosedOnEveryExit ==
    activeRuns = 0 =>
        /\ sessions = 0
        /\ created > 0 => Has("quit")
        /\ created > 0 =>
               outcome \in {"no_login_form", "fill_username_failed",
                            "fill_password_failed", "submit_failed",
                            "recovered", "unrecovered", "exception"}

\* C1 witness: a run that created a session was left by an exception raised
\* by a probe or UI primitive, and the session is closed
C1_Witness ==
    /\ pc = "except"
    /\ created = 1
    /\ outcome = "exception"
    /\ Has("is_logged_in")
    /\ Did("quit", "ok")
    /\ sessions = 0

\* C2: at most one orchestrator run and at most one browser session exist
\* at any moment, no session is open after an iteration, and the loop does
\* not start a poll while a run is in flight.
C2_AtMostOneRunAndSession ==
    /\ activeRuns \in {0, 1}
    /\ sessions \in {0, 1}
    /\ runs \in {0, 1}
    /\ created \in {0, 1}
    /\ pc \in {"loop_top", "ssid_read", "reachability", "sleep"} =>
           activeRuns = 0 /\ sessions = 0

\* C2 witness: an iteration that opened a session has ended and the loop is
\* about to sleep with no session open
C2_Witness ==
    /\ pc = "sleep"
    /\ created = 1
    /\ runs = 1
    /\ activeRuns = 0
    /\ sessions = 0

\* C3 (as claimed): in an iteration where the identity provider reports a
\* name other than the target network, or no name, no orchestrator run
\* happens and no session is created, in both variants.
C3_NoRunOffTarget ==
    network # TARGET_WIFI_SSID => runs = 0 /\ created = 0 /\ probe = "none"

\* C4: with the identity matching the target, the orchestrator is invoked
\* exactly when the iteration's reachability probe returned false, then
\* once; a probe that returned true leaves the iteration without a session.
C4_RunIffProbeFalse ==
    /\ runs = (IF probe = "false" THEN 1 ELSE 0)
    /\ probe = "true" => created = 0 /\ sessions = 0 /\ activeRuns = 0
    /\ probe # "none" => ssid = TARGET_WIFI_SSID
    /\ (pc = "sleep" /\ ssid = TARGET_WIFI_SSID /\ ~Logged("loop_exception"))
           => probe \in {"true", "false"}

\* C4 witness: the probe returned false, the single run has been made and
\* the iteration is over
C4_Witness ==
    /\ pc = "sleep"
    /\ probe = "false"
    /\ runs = 1
    /\ outcome = "recovered"

\* C5: with the username or the password missing or empty, the run reports
\* the missing configuration and returns with no browser session created
\* and no navigation, fill or click made.
C5_MissingCredentialsNoSession ==
    (username \in {None, ""} \/ password \in {None, ""}) =>
        /\ created = 0
        /\ sessions = 0
        /\ ~Has("create_webdriver")
        /\ \A op \in UiOps : ~Has(op)
        /\ (runs = 1 /\ activeRuns = 0) =>
               outcome = "configuration_missing" /\ Logged("missing_credentials")

\* C5 witness: a run with an empty password has returned
C5_Witness ==
    /\ username = "secret"
    /\ password = ""
    /\ runs = 1
    /\ activeRuns = 0
    /\ pc = "sleep"
    /\ Logged("missing_credentials")

\* C6: a fault raised inside an iteration does not end the loop: the guard
\* of main_loop logs it and goes to the sleep, and the next iteration
\* eventually starts.
C6_FaultNeverEndsLoop ==
    /\ [][pc = "except" =>
            /\ pc' = "sleep"
            /\ events' = Append(events, Ev("log", "loop_exception"))]_vars
    /\ (exc ~> (pc = "loop_top" /\ ~exc))
    /\ []<>(pc = "loop_top")

\* C6 witness: the fault of a session close was logged by the guard of the
\* loop, which is about to sleep
C6_Witness ==
    /\ pc = "sleep"
    /\ ~exc
    /\ Did("quit", "raise")
    /\ Logged("loop_exception")

\* C7 (as claimed): is_logged_in is probed first and is_login_form_present
\* only after it was negative; on a first page that shows the logout
\* control, logout runs before any credential is filled.
C7_LoggedInProbedFirst ==
    /\ Preceded("is_login_form_present", "is_logged_in", "false")
    /\ (pc = "fill_user" /\ ~Has("open_portal_fresh_tab") /\ logout_visible(page))
           => Has("attempt_logout")

\* C7 (amended): main_mac.py probes is_logged_in first and the login form
\* only after a negative; main.py probes the login form first and
\* is_logged_in only after a negative, so there a first page that shows
\* the login form is filled with no logout; in both, a positive
\* is_logged_in is followed by logout before any credential is filled.
C7_ProbeOrderPerVariant ==
    /\ variant = "mac" =>
           /\ Preceded("is_login_form_present", "is_logged_in", "false")
           /\ (pc = "fill_user" /\ ~Has("open_portal_fresh_tab")
                   /\ logout_visible(page)) => Has("attempt_logout")
    /\ variant = "win" =>
           /\ Preceded("is_logged_in", "is_login_form_present", "false")
           /\ Did("is_login_form_present", "true") =>
                  ~Has("is_logged_in") /\ ~Has("attempt_logout")
    /\ Did("is_logged_in", "true") =>
           /\ Preceded("fill_username", "attempt_logout", "true")
                  \/ Preceded("fill_username", "attempt_logout", "false")
           /\ pc \in {"open_li", "open1", "wait_li", "wait1", "fill_user"}
                  => Has("attempt_logout")

\* C7 witness: main_mac.py saw the logout control, ran logout and reached
\* the login form, before any fill
C7_Witness ==
    /\ variant = "mac"
    /\ pc = "fill_user"
    /\ Did("is_logged_in", "true")
    /\ Has("attempt_logout")
    /\ ~Has("is_login_form_present")

\* C8: username before password before submit; a failed username fill
\* ends the run with no password fill and no click, a failed password fill
\* with no click, a failed click with no polling; a run ends Recovered
\* exactly when, after both fills and the click, a probe answered online.
C8_FillOrderAndAborts ==
    /\ Preceded("fill_password", "fill_username", "true")
    /\ Preceded("click_submit", "fill_password", "true")
    /\ lastPoll # "none" => Did("click_submit", "true")
    /\ pc = "poll" => Did("click_submit", "true")
    /\ Did("fill_username", "false") =>
           ~Has("fill_password") /\ ~Has("click_submit") /\ lastPoll = "none"
           /\ outcome = "fill_username_failed"
    /\ Did("fill_password", "false") =>
           ~Has("click_submit") /\ lastPoll = "none"
           /\ outcome = "fill_password_failed"
    /\ Did("click_submit", "false") =>
           lastPoll = "none" /\ outcome = "submit_failed"
    /\ \A op \in {"fill_username", "fill_password", "click_submit"} :
           Cardinality(Idx(op)) <= 1
    /\ outcome = "recovered" =>
           /\ Did("fill_username", "true")
           /\ Did("fill_password", "true")
           /\ Did("click_submit", "true")
           /\ lastPoll = "online"
           /\ elapsed - MaxProbeTicks < PollCeilingTicks
    /\ Logged("connectivity_recovered") =>
           outcome = "recovered" \/ Did("quit", "raise")
           \/ outcome = "exception"

\* C8 witness: a run filled both fields, clicked submit, saw connectivity
\* return on a later probe and ended Recovered
C8_Witness ==
    /\ outcome = "recovered"
    /\ pc = "sleep"
    /\ elapsed > 0
    /\ Did("quit", "ok")

\* C9 (as claimed): a run that ends Unrecovered has emitted a log record
\* after the submit record and before the session is closed.
C9_UnrecoveredReported ==
    (outcome = "unrecovered" /\ Has("quit")) =>
        \/ pollFailLogged
        \/ \E i, j, k \in 1..Len(events) :
              /\ i < j /\ j < k
              /\ events[i] = Ev("log", "login_submitted")
              /\ events[j].op = "log"
              /\ events[k].op = "quit"

\* C10: a field is filled only after a login-form probe of the same run
\* returned true; a run whose last form wait was negative reports an error,
\* fills nothing, clicks nothing and closes its session, and the loop goes
\* on.
C10_FillOnlyConfirmedForm ==
    LET NegWaits == {i \in Idx("wait_for_login_form") : events[i].res = "false"}
        GaveUp == \/ Cardinality(NegWaits) = 2
                  \/ /\ variant = "mac"
                     /\ Did("is_logged_in", "true")
                     /\ Cardinality(NegWaits) = 1
    IN  /\ \A op \in {"fill_username", "fill_password"} :
              \A i \in Idx(op) : \E j \in 1..(i - 1) :
                  events[j].op \in FormProbes /\ events[j].res = "true"
        /\ pc \in {"fill_user", "fill_pass", "submit", "poll"} =>
              \E j \in 1..Len(events) :
                  events[j].op \in FormProbes /\ events[j].res = "true"
        /\ GaveUp =>
              /\ outcome = "no_login_form"
              /\ Logged("login_form_unreachable")
              /\ ~Has("fill_username") /\ ~Has("fill_password")
              /\ ~Has("click_submit")
              /\ lastPoll = "none"
              /\ pc \in {"finally", "except", "sleep"}
              /\ activeRuns = 0 => sessions = 0 /\ Has("quit")
        /\ outcome = "no_login_form" => GaveUp

\* C10 witness: neither state was detected, both reopen attempts failed,
\* the run gave up and its session is closed
C10_Witness ==
    /\ outcome = "no_login_form"
    /\ Did("is_logged_in", "false")
    /\ Did("is_login_form_present", "false")
    /\ Did("quit", "ok")
    /\ pc = "sleep"
    /\ sessions = 0

----------------------------------------------------------------------------
(* The functions studied on their own start from a quiet main_loop         *)

MainQuiet ==
    /\ username = None
    /\ password = None
    /\ network = None
    /\ pc = "not_started"
    /\ ssid = None
    /\ probe = "none"
    /\ runs = 0
    /\ activeRuns = 0
    /\ sessions = 0
    /\ created = 0
    /\ page = BlankPage
    /\ events = << >>
    /\ outcome = "none"
    /\ exc = FALSE
    /\ elapsed = 0
    /\ lastPoll = "none"
    /\ pollFailLogged = FALSE

mainVars == << variant, username, password, network, pc, ssid, probe, runs,
               activeRuns, sessions, created, page, events, outcome, exc,
               elapsed, lastPoll, pollFailLogged >>

----------------------------------------------------------------------------
(* _locate_nearby_input on a page tree                                     *)

\* at most MaxInputs elements of a tree are input or textarea elements
MaxInputs == 2

\* The tree, nodes numbered in document order (0 = no node):
\*   1 html
\*     2 parent
\*       3 sibling   4 sibling (5 its child)   6 middle (7 (8) and 9 below)
\*       10 sibling  11 sibling
\*     12 outside the parent
NodeIds == 1..12
Parent == << 0, 1, 2, 2, 4, 2, 6, 7, 6, 2, 2, 1 >>
Leaves == {n \in NodeIds : \A m \in NodeIds : Parent[m] # n}
InputCapable == {"input", "textarea"}

\* input and textarea elements have no element children
Trees ==
    UNION {{[n \in NodeIds |-> IF n \in S THEN f[n] ELSE "div"] :
               f \in [S -> InputCapable]} :
           S \in {X \in SUBSET Leaves : Cardinality(X) <= MaxInputs}}

RECURSIVE IsUnder(_, _)
IsUnder(m, n) ==
    IF Parent[m] = 0 THEN FALSE ELSE Parent[m] = n \/ IsUnder(Parent[m], n)
Descendants(n) == {m \in NodeIds : IsUnder(m, n)}
Siblings(n) == {m \in NodeIds \ {n} : Parent[n] # 0 /\ Parent[m] = Parent[n]}
FirstOf(S) == IF S = {} THEN 0 ELSE CHOOSE m \in S : \A k \in S : m <= k
LastOf(S) == IF S = {} THEN 0 ELSE CHOOSE m \in S : \A k \in S : m >= k

\* if tag in {"input", "textarea"}: return element
TierSelf(t, a) == IF t[a] \in {"input", "textarea"} THEN a ELSE 0
\* element.find_elements(By.TAG_NAME, "input")[0]
TierDescendant(t, a) == FirstOf({m \in Descendants(a) : t[m] = "input"})
\* element.find_element(By.XPATH, "following-sibling::input[1]")
TierFollowing(t, a) == FirstOf({m \in Siblings(a) : m > a /\ t[m] = "input"})
\* element.find_element(By.XPATH, "preceding-sibling::input[1]")
TierPreceding(t, a) == LastOf({m \in Siblings(a) : m < a /\ t[m] = "input"})
\* element.find_element(By.XPATH, "..").find_elements(By.XPATH, ".//input")[0]
TierParent(t, a) ==
    IF Parent[a] = 0 THEN 0
    ELSE FirstOf({m \in Descendants(Parent[a]) : t[m] = "input"})

\* the driver calls of the function, in the order of the source; a call in
\* faults raises (tag_name: return None; a lookup: go to the next one)
LocateCalls == {"tag_name", "descendant", "following", "preceding", "parent"}

locate_nearby_input_PrecedingFirst(t, a, faults) ==
    IF "tag_name" \in faults THEN 0
    ELSE IF TierSelf(t, a) # 0 THEN TierSelf(t, a)
    ELSE IF "descendant" \notin faults /\ TierDescendant(t, a) # 0
         THEN TierDescendant(t, a)
    ELSE IF "preceding" \notin faults /\ TierPreceding(t, a) # 0
         THEN TierPreceding(t, a)
    ELSE IF "following" \notin faults /\ TierFollowing(t, a) # 0
         THEN TierFollowing(t, a)
    ELSE IF "parent" \notin faults THEN TierParent(t, a)
    ELSE 0

locate_nearby_input(t, a, faults) ==
    IF "tag_name" \in faults THEN 0
    ELSE IF TierSelf(t, a) # 0 THEN TierSelf(t, a)
    ELSE IF "descendant" \notin faults /\ TierDescendant(t, a) # 0
         THEN TierDescendant(t, a)
    ELSE IF "following" \notin faults /\ TierFollowing(t, a) # 0
         THEN TierFollowing(t, a)
    ELSE IF "preceding" \notin faults /\ TierPreceding(t, a) # 0
         THEN TierPreceding(t, a)
    ELSE IF "parent" \notin faults THEN TierParent(t, a)
    ELSE 0

InitLocate ==
    /\ variant \in Variants
    /\ MainQuiet
    /\ \E t \in Trees, a \in NodeIds :
          locateFrame = [pc |-> "call", tree |-> t, anchor |-> a,
                         faults |-> {}, result |-> 0]
    /\ fillFrame = Idle
    /\ revealFrame = Idle
    /\ onlineFrame = Idle
    /\ UiIdle

\* target = _locate_nearby_input(element)
LocateNearbyInput ==
    /\ locateFrame.pc = "call"
    /\ \E faults \in SUBSET LocateCalls :
          locateFrame' = [locateFrame EXCEPT
              !.pc = "done",
              !.faults = faults,
              !.result = locate_nearby_input(locateFrame.tree,
                                             locateFrame.anchor, faults)]
    /\ UNCHANGED << mainVars, uiVars, fillFrame, revealFrame, onlineFrame >>

NextLocate == LocateNearbyInput

SpecLocate == InitLocate /\ [][NextLocate]_vars

\* the elements the claims call nearby: the anchor and its parent's subtree
\* (the anchor's own subtree when it has no parent)
Nearby(a) ==
    {a} \cup (IF Parent[a] = 0 THEN Descendants(a)
              ELSE Descendants(Parent[a]))

\* C11 (as claimed): when exactly one input or textarea element is nearby
\* and no driver call fails, _locate_nearby_input returns that element.
C11_UniqueInputCapableFound ==
    (locateFrame.pc = "done" /\ locateFrame.faults = {}) =>
        LET near == {m \in Nearby(locateFrame.anchor) :
                        locateFrame.tree[m] \in InputCapable}
        IN  Cardinality(near) = 1 => locateFrame.result \in near

\* C18: the lookups are made in the order self, descendants, following
\* sibling, preceding sibling, parent subtree, and the result is that of
\* the first lookup that finds an element (none: no element).
C18_TiersInFixedOrder ==
    locateFrame.pc = "done" =>
        LET t == locateFrame.tree
            a == locateFrame.anchor
            F == locateFrame.faults
            r == locateFrame.result
            order == << << "self", TierSelf(t, a) >>,
                        << "descendant", TierDescendant(t, a) >>,
                        << "following", TierFollowing(t, a) >>,
                        << "preceding", TierPreceding(t, a) >>,
                        << "parent", TierParent(t, a) >> >>
            found(k) == order[k][1] \notin F /\ order[k][2] # 0
        IN  IF "tag_name" \in F THEN r = 0
            ELSE /\ (\A k \in 1..5 : ~found(k)) => r = 0
                 /\ \A k \in 1..5 :
                       (found(k) /\ \A j \in 1..(k - 1) : ~found(j))
                           => r = order[k][2]
                 /\ t[a] \in InputCapable => r = a

\* C18 witness: inputs on both sides of an anchor that has none below it;
\* the following sibling was returned
C18_Witness ==
    /\ locateFrame.pc = "done"
    /\ locateFrame.faults = {}
    /\ TierSelf(locateFrame.tree, locateFrame.anchor) = 0
    /\ TierDescendant(locateFrame.tree, locateFrame.anchor) = 0
    /\ TierPreceding(locateFrame.tree, locateFrame.anchor) # 0
    /\ TierFollowing(locateFrame.tree, locateFrame.anchor) # 0
    /\ locateFrame.result = TierFollowing(locateFrame.tree, locateFrame.anchor)

----------------------------------------------------------------------------
(* fill_field on one control, called up to MaxFillCalls times in a row     *)

\* strings are sequences of characters, at most MaxLen long
MaxLen == 2
\* fill_field is called MaxFillCalls times with the same xpath and value
MaxFillCalls == 2

Chars == {"a", " "}
Strings == UNION {[1..n -> Chars] : n \in 0..MaxLen}

\* xpaths are sequences of steps; the two anchors of the program end in
\* /label, the other one stands for any other caller
XPaths == {<< "ul", "li", "label" >>, << "ul", "li", "span" >>}
\* xpath.endswith("/label")
EndsWithLabel(x) == Len(x) > 0 /\ x[Len(x)] = "label"
\* xpath[:-6] + "/input"
AltXPath(x) == Append(SubSeq(x, 1, Len(x) - 1), "input")

\* str.strip()
RECURSIVE LStrip(_)
LStrip(str) ==
    IF str = << >> THEN str
    ELSE IF Head(str) = " " THEN LStrip(Tail(str)) ELSE str
RECURSIVE RStrip(_)
RStrip(str) ==
    IF str = << >> THEN str
    ELSE IF str[Len(str)] = " " THEN RStrip(SubSeq(str, 1, Len(str) - 1))
    ELSE str
Strip(str) == RStrip(LStrip(str))

\* (current_val or "").strip() == value
Verified(current, value) == Strip(current) = value

\* if target is None and xpath.endswith("/label"): try the /input path
TryLabelFallback_AnyPath(found, x) == ~found
TryLabelFallback(found, x) == ~found /\ EndsWithLabel(x)

\* text of an exception of the driver, as logged through %s
ExcText == << "driver", "message" >>

\* arguments of the two "field filled" records
FilledLogArgs_WithValue(x, v) == {x, v}
FilledLogArgs(x, v) == {x}

LogRec(level, msg, args) == [level |-> level, msg |-> msg, args |-> args]
NoRead == [ok |-> FALSE, val |-> << >>]
ReadOf(val) == [ok |-> TRUE, val |-> val]

\* the frame at the entry of a call
FillEntry(x, v, ctl, results, healthy) ==
    [pc |-> "wait_anchor", xpath |-> x, value |-> v, ctl |-> ctl,
     target |-> "unset", trace |-> << >>, logs |-> << >>, result |-> "none",
     results |-> results, healthy |-> healthy,
     read1 |-> NoRead, read2 |-> NoRead]

InitFill ==
    /\ variant \in Variants
    /\ MainQuiet
    /\ \E x \in XPaths, v \in Strings, c \in {<< >>, << "a" >>} :
          fillFrame = FillEntry(x, v, c, << >>, TRUE)
    /\ locateFrame = Idle
    /\ revealFrame = Idle
    /\ onlineFrame = Idle
    /\ UiIdle

FillUnchanged ==
    UNCHANGED << mainVars, uiVars, locateFrame, revealFrame, onlineFrame >>

\* return of fill_field with res, from any place in the function
FillReturn(f, res) == [f EXCEPT !.pc = "ret", !.result = res]

\* WebDriverWait(...).until(presence_of_element_located(xpath)) and the
\* handlers of the outer try
FWaitAnchor ==
    /\ fillFrame.pc = "wait_anchor"
    /\ LET f == [fillFrame EXCEPT !.trace = Append(@, "wait_anchor")]
           x == fillFrame.xpath
       IN  \/ fillFrame' = [f EXCEPT !.pc = "locate"]
           \/ fillFrame' = FillReturn(
                 [f EXCEPT !.healthy = FALSE,
                           !.logs = Append(@, LogRec("WARNING",
                                        "wait_field_timeout", {x}))],
                 "false")
           \/ fillFrame' = FillReturn(
                 [f EXCEPT !.healthy = FALSE,
                           !.logs = Append(@, LogRec("ERROR",
                                        "fill_field_failed", {x, ExcText}))],
                 "false")
           \/ fillFrame' = FillReturn([f EXCEPT !.healthy = FALSE], "raised")
    /\ FillUnchanged

\* if target is None: logging.error(...); return False
NoTarget(f) ==
    FillReturn([f EXCEPT !.target = "none", !.healthy = FALSE,
                         !.logs = Append(@, LogRec("ERROR",
                                      "no_input_control", {f.xpath}))],
               "false")

\* target = _locate_nearby_input(element) and the branch on its result
FLocate ==
    /\ fillFrame.pc = "locate"
    /\ \E found \in BOOLEAN :
         LET f == [fillFrame EXCEPT !.trace = Append(@, "locate")]
         IN  fillFrame' =
                IF found THEN [f EXCEPT !.target = "nearby", !.pc = "focus"]
                ELSE IF TryLabelFallback(found, f.xpath)
                THEN [f EXCEPT !.pc = "alt"]
                ELSE NoTarget(f)
    /\ FillUnchanged

\* WebDriverWait(driver, 2).until(presence_of_element_located(alt_xpath))
FAltWait ==
    /\ fillFrame.pc = "alt"
    /\ LET f == [fillFrame EXCEPT !.trace = Append(@, "alt_wait")]
           x == fillFrame.xpath
       IN  \/ fillFrame' = [f EXCEPT !.target = "alt", !.pc = "focus"]
           \/ fillFrame' = NoTarget(f)
           \/ fillFrame' = FillReturn(
                 [f EXCEPT !.healthy = FALSE,
                           !.logs = Append(@, LogRec("ERROR",
                                        "fill_field_failed", {x, ExcText}))],
                 "false")
           \/ fillFrame' = FillReturn([f EXCEPT !.healthy = FALSE], "raised")
    /\ FillUnchanged

\* scrollIntoView and target.click(), each in its own try/except pass
FFocus ==
    /\ fillFrame.pc = "focus"
    /\ fillFrame' = [fillFrame EXCEPT !.trace = @ \o << "scroll", "click" >>,
                                      !.pc = "clear"]
    /\ FillUnchanged

\* target.clear() in try/except pass: an exception leaves the value
FClear ==
    /\ fillFrame.pc = "clear"
    /\ \E cleared \in BOOLEAN :
          fillFrame' = [fillFrame EXCEPT
              !.trace = Append(@, "clear"),
              !.ctl = IF cleared THEN << >> ELSE @,
              !.pc = "send_keys"]
    /\ FillUnchanged

\* target.send_keys(value); get_attribute("value"); compare
FSendKeys ==
    /\ fillFrame.pc = "send_keys"
    /\ \E mode \in {"types", "ignores", "raises"} :
         LET typed == IF mode = "types" THEN fillFrame.ctl \o fillFrame.value
                      ELSE fillFrame.ctl
             f == [fillFrame EXCEPT !.trace = Append(@, "send_keys"),
                                    !.ctl = typed,
                                    !.healthy = @ /\ mode = "types"]
         IN  fillFrame' =
                IF mode = "raises"
                THEN [f EXCEPT !.pc = "js",
                               !.logs = Append(@, LogRec("DEBUG",
                                            "send_keys_exception", {ExcText}))]
                ELSE IF Verified(typed, f.value)
                THEN FillReturn(
                        [f EXCEPT !.read1 = ReadOf(typed),
                                  !.logs = Append(@, LogRec("INFO",
                                      "filled_send_keys",
                                      FilledLogArgs(f.xpath, f.value)))],
                        "true")
                ELSE [f EXCEPT !.read1 = ReadOf(typed), !.pc = "js"]
    /\ FillUnchanged

\* execute_script("arguments[0].value = arguments[1]; ..."); compare;
\* logging.error(...); return False
FJsAssign ==
    /\ fillFrame.pc = "js"
    /\ \E mode \in {"sets", "ignores", "raises"} :
         LET set == IF mode = "sets" THEN fillFrame.value ELSE fillFrame.ctl
             f == [fillFrame EXCEPT !.trace = Append(@, "js_assign"),
                                    !.ctl = set,
                                    !.healthy = @ /\ mode = "sets"]
             noEffect == LogRec("ERROR", "fill_no_effect", {f.xpath})
         IN  fillFrame' =
                IF mode = "raises"
                THEN FillReturn(
                        [f EXCEPT !.logs = @ \o
                            << LogRec("ERROR", "js_fill_failed",
                                      {f.xpath, ExcText}), noEffect >>],
                        "false")
                ELSE IF Verified(set, f.value)
                THEN FillReturn(
                        [f EXCEPT !.read2 = ReadOf(set),
                                  !.logs = Append(@, LogRec("INFO",
                                      "filled_js",
                                      FilledLogArgs(f.xpath, f.value)))],
                        "true")
                ELSE FillReturn(
                        [f EXCEPT !.read2 = ReadOf(set),
                                  !.logs = Append(@, noEffect)],
                        "false")
    /\ FillUnchanged

\* the caller: if not fill_field(...): logging.error(...); return
FCaller ==
    /\ fillFrame.pc = "ret"
    /\ fillFrame' = [fillFrame EXCEPT
          !.pc = "done",
          !.results = Append(@, fillFrame.result),
          !.logs = IF fillFrame.result = "false"
                   THEN Append(@, LogRec("ERROR", "fill_failed_abort", {}))
                   ELSE @]
    /\ FillUnchanged

\* the same call once more, on the control as the last call left it
FCallAgain ==
    /\ fillFrame.pc = "done"
    /\ Len(fillFrame.results) < MaxFillCalls
    /\ fillFrame' = FillEntry(fillFrame.xpath, fillFrame.value, fillFrame.ctl,
                              fillFrame.results, fillFrame.healthy)
    /\ FillUnchanged

NextFill ==
    \/ FWaitAnchor
    \/ FLocate
    \/ FAltWait
    \/ FFocus
    \/ FClear
    \/ FSendKeys
    \/ FJsAssign
    \/ FCaller
    \/ FCallAgain

SpecFill == InitFill /\ [][NextFill]_vars

FillOps(f) == {f.trace[i] : i \in 1..Len(f.trace)}
FillCount(f, op) == Cardinality({i \in 1..Len(f.trace) : f.trace[i] = op})
FillResolved(f) == f.target \in {"nearby", "alt"}
FillLogged(f, msg) == \E i \in 1..Len(f.logs) : f.logs[i].msg = msg

\* C12: on a resolved control fill_field returns True exactly when the value
\* read back after the keystroke path, or after the script fallback, equals
\* the requested value, for every requested string.
C12_TrueIffValueEquals ==
    (fillFrame.pc = "ret" /\ FillResolved(fillFrame))
        => ((fillFrame.result = "true")
              <=> \/ fillFrame.read1.ok /\ fillFrame.read1.val = fillFrame.value
                  \/ fillFrame.read2.ok /\ fillFrame.read2.val = fillFrame.value)

\* C13: on a control that takes keystrokes and script assignments, two calls
\* of fill_field with the same value both return True and leave the control's
\* value equal to that value, whether or not clear() cleared it.
C13_TwiceSameValue ==
    (fillFrame.pc = "done" /\ Len(fillFrame.results) = 2 /\ fillFrame.healthy)
        => /\ fillFrame.results = << "true", "true" >>
           /\ fillFrame.ctl = fillFrame.value

\* C15: no log record written by fill_field or by its caller, at any level
\* and on any path, carries the value being filled in among its arguments.
C15_NoValueInLogs ==
    fillFrame.pc # "idle"
        => \A i \in 1..Len(fillFrame.logs) :
              fillFrame.value \notin fillFrame.logs[i].args

C15_Witness ==
    /\ fillFrame.pc = "ret"
    /\ fillFrame.value = << "a" >>
    /\ fillFrame.result = "true"
    /\ FillLogged(fillFrame, "send_keys_exception")
    /\ FillLogged(fillFrame, "filled_js")

\* C19: the /label to /input substitution is tried at most once per call, and
\* only after the nearby search found nothing on an anchor path ending in
\* /label; while no control is resolved nothing is clicked, cleared, typed or
\* assigned, and a call that resolves none (or whose anchor never appears)
\* returns False.
C19_LabelFallbackLastResort ==
    fillFrame.pc # "idle"
        => /\ FillCount(fillFrame, "alt_wait") <= 1
           /\ "alt_wait" \in FillOps(fillFrame)
                => /\ EndsWithLabel(fillFrame.xpath)
                   /\ "locate" \in FillOps(fillFrame)
                   /\ fillFrame.target # "nearby"
           /\ ~FillResolved(fillFrame)
                => FillOps(fillFrame) \cap
                      {"scroll", "click", "clear", "send_keys", "js_assign"}
                   = {}
           /\ (/\ fillFrame.pc = "ret"
               /\ \/ fillFrame.target = "none"
                  \/ FillLogged(fillFrame, "wait_field_timeout"))
                => fillFrame.result = "false"

C19_Witness ==
    /\ fillFrame.pc = "ret"
    /\ fillFrame.target = "none"
    /\ "alt_wait" \in FillOps(fillFrame)
    /\ fillFrame.result = "false"

----------------------------------------------------------------------------
(* hover_to_reveal step by step, on a page that reveals the target at most *)
(* when one kind of step acts on one candidate; time in ticks of 0.05 s    *)

\* deadline = time.time() + 0.5
HoverDeadlineTicks == 10
\* WebDriverWait(driver, 0.5) running into its timeout
VisibilityWaitTicks == 10
\* time.sleep(0.05)
PassSleepTicks == 1

\* candidate_xpaths: 1 is target_xpath, then the enclosing containers
CandidateCount(v) == IF v = "win" THEN 4 ELSE 3
RevealSteps ==
    << "scroll", "hover", "mouseover", "mousemove", "mouseenter", "style" >>
RevealStepSet == {RevealSteps[i] : i \in 1..Len(RevealSteps)}
StepIndex(op) == CHOOSE i \in 1..Len(RevealSteps) : RevealSteps[i] = op

\* the statement after step op; each step sits in its own try/except pass
RevealNext_SkipOnFault(op, ok) ==
    IF ok /\ StepIndex(op) < Len(RevealSteps)
    THEN RevealSteps[StepIndex(op) + 1] ELSE "check"
RevealNext(op, ok) ==
    IF StepIndex(op) < Len(RevealSteps)
    THEN RevealSteps[StepIndex(op) + 1] ELSE "check"

\* the clock after time.sleep(0.05)
AfterPassSleep_NoAdvance(now) == now
AfterPassSleep(now) == now + PassSleepTicks

NoTrigger == [cand |-> 0, op |-> "none"]
Triggers(v) ==
    {NoTrigger} \cup [cand : 1..CandidateCount(v), op : RevealStepSet]

InitReveal ==
    /\ variant \in Variants
    /\ MainQuiet
    /\ \E tr \in Triggers(variant), vis \in BOOLEAN :
          revealFrame = [pc |-> "call", cand |-> 1, now |-> 0, deadline |-> 0,
                         visible |-> vis, trigger |-> tr, trace |-> << >>,
                         result |-> "none"]
    /\ locateFrame = Idle
    /\ fillFrame = Idle
    /\ onlineFrame = Idle
    /\ UiIdle

RevealUnchanged ==
    UNCHANGED << mainVars, uiVars, locateFrame, fillFrame, onlineFrame >>

REntry(op, cand, seen) == [op |-> op, cand |-> cand, seen |-> seen]

\* candidate_xpaths = [...]; main_mac.py also sets the deadline
RBegin ==
    /\ revealFrame.pc = "call"
    /\ revealFrame' = [revealFrame EXCEPT
          !.deadline = IF variant = "mac"
                       THEN revealFrame.now + HoverDeadlineTicks ELSE @,
          !.pc = IF variant = "mac" THEN "while" ELSE "find"]
    /\ RevealUnchanged

\* main_mac.py: while time.time() < deadline: ... return False
RWhile ==
    /\ revealFrame.pc = "while"
    /\ revealFrame' =
          IF revealFrame.now < revealFrame.deadline
          THEN [revealFrame EXCEPT !.pc = "find", !.cand = 1, !.trace = << >>]
          ELSE [revealFrame EXCEPT !.pc = "done", !.result = "false"]
    /\ RevealUnchanged

\* for xp in candidate_xpaths: elem = driver.find_element(By.XPATH, xp),
\* continue when it raises; a visible target is in the page
RFind ==
    /\ revealFrame.pc = "find"
    /\ IF revealFrame.cand > CandidateCount(variant)
       THEN revealFrame' =
               IF variant = "mac" THEN [revealFrame EXCEPT !.pc = "sleep"]
               ELSE [revealFrame EXCEPT !.pc = "done", !.result = "false"]
       ELSE \E found \in (IF revealFrame.cand = 1 /\ revealFrame.visible
                          THEN {TRUE} ELSE BOOLEAN) :
               revealFrame' =
                  IF found THEN [revealFrame EXCEPT !.pc = RevealSteps[1]]
                  ELSE [revealFrame EXCEPT
                           !.trace = Append(@, REntry("not_found",
                                                revealFrame.cand, FALSE)),
                           !.cand = @ + 1]
    /\ RevealUnchanged

\* scrollIntoView, ActionChains hover, the three synthetic events and the
\* style override on elem, each passing over its own exception
RStep ==
    /\ revealFrame.pc \in RevealStepSet
    /\ \E ok \in BOOLEAN :
         LET op == revealFrame.pc
             hit == /\ ok
                    /\ revealFrame.trigger.cand = revealFrame.cand
                    /\ revealFrame.trigger.op = op
         IN  revealFrame' = [revealFrame EXCEPT
                !.trace = Append(@, REntry(op, revealFrame.cand, FALSE)),
                !.visible = @ \/ hit,
                !.pc = RevealNext(op, ok)]
    /\ RevealUnchanged

\* WebDriverWait(...).until(visibility_of_element_located(target_xpath)):
\* return True, or continue with the next candidate after the timeout
RCheck ==
    /\ revealFrame.pc = "check"
    /\ LET f == [revealFrame EXCEPT
                   !.trace = Append(@, REntry("check", revealFrame.cand,
                                              revealFrame.visible))]
       IN  revealFrame' =
              IF revealFrame.visible
              THEN [f EXCEPT !.pc = "done", !.result = "true"]
              ELSE [f EXCEPT !.pc = "find", !.cand = @ + 1,
                             !.now = @ + (IF variant = "mac"
                                          THEN VisibilityWaitTicks ELSE 0)]
    /\ RevealUnchanged

\* main_mac.py: time.sleep(0.05) at the end of a pass
RSleep ==
    /\ revealFrame.pc = "sleep"
    /\ revealFrame' = [revealFrame EXCEPT !.now = AfterPassSleep(@),
                                          !.pc = "while"]
    /\ RevealUnchanged

NextReveal ==
    \/ RBegin
    \/ RWhile
    \/ RFind
    \/ RStep
    \/ RCheck
    \/ RSleep

SpecReveal == InitReveal /\ [][NextReveal]_vars
FairSpecReveal == SpecReveal /\ WF_vars(NextReveal)

\* C14: hover_to_reveal returns True exactly when the target is visible at its
\* return, having been revealed through one of the candidates (or visible
\* already), and it always returns: False once the candidates, or the 0.5 s
\* of main_mac.py, are used up, also when no candidate is found.
C14_RevealIffVisibleAndReturns ==
    /\ [](revealFrame.pc = "done"
            => ((revealFrame.result = "true") <=> revealFrame.visible))
    /\ [](revealFrame.pc # "idle"
            => revealFrame.now <= HoverDeadlineTicks - 1
                                    + CandidateCount("mac") * VisibilityWaitTicks
                                    + PassSleepTicks)
    /\ (revealFrame.pc = "call") ~> (revealFrame.pc = "done")

C14_Witness ==
    /\ revealFrame.pc = "done"
    /\ revealFrame.result = "true"
    /\ revealFrame.trace # << >>
    /\ revealFrame.trace[Len(revealFrame.trace)].cand = 2
    /\ revealFrame.trigger.cand = 2

RevealBlock == Append(RevealSteps, "check")

\* C20: within a pass the candidates are taken in list order, target first;
\* a candidate that is not found is skipped; on a found one scroll, hover,
\* the three synthetic events and the style override are all attempted in
\* that order whether or not one of them fails, then the target's visibility
\* is checked; a positive check is the last thing done and returns True.
C20_CandidatesInOrderAllSteps ==
    revealFrame.pc # "idle"
        => LET tr == revealFrame.trace
               n == Len(tr)
           IN  /\ \A i \in 1..n, j \in 1..n :
                     i < j => tr[i].cand <= tr[j].cand
               /\ \A i \in 1..n :
                     LET k == Cardinality({j \in 1..(i - 1) :
                                              tr[j].cand = tr[i].cand})
                     IN  IF tr[i].op = "not_found" THEN k = 0
                         ELSE k < Len(RevealBlock) /\ tr[i].op = RevealBlock[k + 1]
               /\ \A i \in 1..(n - 1) :
                     tr[i + 1].cand > tr[i].cand
                        => tr[i].op \in {"not_found", "check"}
               /\ \A i \in 1..n :
                     tr[i].seen
                        => /\ tr[i].op = "check"
                           /\ i = n
                           /\ revealFrame.pc = "done"
                           /\ revealFrame.result = "true"
               /\ revealFrame.result = "true" => n > 0 /\ tr[n].seen
               /\ revealFrame.pc = "done" /\ n > 0
                     => tr[n].op \in {"not_found", "check"}

C20_Witness ==
    /\ revealFrame.pc = "done"
    /\ revealFrame.result = "true"
    /\ Len(revealFrame.trace) = 2 * Len(RevealBlock) + 1
    /\ revealFrame.trace[Len(RevealBlock)].op = "check"
    /\ revealFrame.trace[Len(RevealBlock) + 1].op = "not_found"
    /\ revealFrame.trace[Len(revealFrame.trace)].cand = 3

\* C16: when the browser session cannot be created the run logs the failure
\* and is over, control being back in main_loop: nothing was navigated,
\* probed, filled or clicked, no session exists, and the loop goes on to its
\* sleep (through its guard when the failure is not a WebDriverException).
C16_SessionInitFailureEndsRun ==
    /\ Did("create_webdriver", "WebDriverException")
          => /\ \A op \in UiOps : ~Has(op)
             /\ created = 0
             /\ sessions = 0
             /\ activeRuns = 0
             /\ outcome = "session_init_failure"
             /\ Logged("webdriver_init_failed")
             /\ pc = "sleep"
    /\ Did("create_webdriver", "fault")
          => /\ \A op \in UiOps : ~Has(op)
             /\ created = 0
             /\ sessions = 0
             /\ activeRuns = 0
             /\ pc \in {"except", "sleep"}
             /\ pc = "sleep" => Logged("loop_exception")

C16_Witness ==
    /\ Did("create_webdriver", "WebDriverException")
    /\ runs = 1
    /\ pc = "sleep"
    /\ username = "secret"
    /\ password = "secret"

----------------------------------------------------------------------------
(* is_online of main_mac.py, called MaxOnlineCalls times on a network that *)
(* answers the TCP connect and the HTTP request independently              *)

MaxOnlineCalls == 2

\* what socket.create_connection((FAST_DNS_HOST, FAST_DNS_PORT), ...) meets
TcpAnswers == {"connected", "refused", "timeout"}

\* has_quick_connectivity: True when the connection opens, False on OSError
has_quick_connectivity(t) == t = "connected"

OnlineEntry(t, r, results) ==
    [pc |-> "call", tcp |-> t, http |-> r, probes |-> << >>,
     result |-> "none", results |-> results]

InitOnline ==
    /\ variant = "mac"
    /\ MainQuiet
    /\ \E t \in TcpAnswers, r \in Responses :
          onlineFrame = OnlineEntry(t, r, << >>)
    /\ locateFrame = Idle
    /\ fillFrame = Idle
    /\ revealFrame = Idle
    /\ UiIdle

OnlineUnchanged ==
    UNCHANGED << mainVars, uiVars, locateFrame, fillFrame, revealFrame >>

\* return has_internet_connectivity(): the one probe is_online makes
OProbeHttp ==
    /\ onlineFrame.pc = "call"
    /\ onlineFrame' = [onlineFrame EXCEPT
          !.probes = Append(@, "has_internet_connectivity"),
          !.result = IF onlineFrame.http.kind = "fault" THEN "raised"
                     ELSE IF is_online(onlineFrame.http) THEN "true"
                     ELSE "false",
          !.pc = "ret"]
    /\ OnlineUnchanged

\* the caller takes the result: if is_online(): ...
OReturn ==
    /\ onlineFrame.pc = "ret"
    /\ onlineFrame' = [onlineFrame EXCEPT
          !.results = Append(@, onlineFrame.result), !.pc = "done"]
    /\ OnlineUnchanged

\* the next call, on the network as it is then
OCallAgain ==
    /\ onlineFrame.pc = "done"
    /\ Len(onlineFrame.results) < MaxOnlineCalls
    /\ \E t \in TcpAnswers, r \in Responses :
          onlineFrame' = OnlineEntry(t, r, onlineFrame.results)
    /\ OnlineUnchanged

NextOnline ==
    \/ OProbeHttp
    \/ OReturn
    \/ OCallAgain

SpecOnline == InitOnline /\ [][NextOnline]_vars

\* C17: is_online runs the TCP probe first and returns True as soon as it
\* succeeds; only when it fails does it run the HTTP probe, whose result it
\* then returns.
C17_TcpFirstHttpFallback ==
    onlineFrame.pc = "ret"
        => IF has_quick_connectivity(onlineFrame.tcp)
           THEN /\ onlineFrame.probes = << "has_quick_connectivity" >>
                /\ onlineFrame.result = "true"
           ELSE /\ onlineFrame.probes = << "has_quick_connectivity",
                                           "has_internet_connectivity" >>
                /\ onlineFrame.result =
                      (IF onlineFrame.http.kind = "fault" THEN "raised"
                       ELSE IF has_internet_connectivity(onlineFrame.http)
                       THEN "true" ELSE "false")

----------------------------------------------------------------------------
(* attempt_logout round by round; hover_to_reveal and try_click are calls  *)
(* whose answers the page chooses                                          *)

\* the largest retries argument drawn (the callers pass 4, 3 and 2)
MaxRetries == 4

\* range(max(1, retries))
Rounds(retries) == IF retries > 1 THEN retries ELSE 1

\* if try_click(driver, logout_xpath): ... return True, else the script click
AfterClick_AlwaysScript(res) == IF res = "raise" THEN "ret" ELSE "script_click"
AfterClick(res) ==
    IF res = "false" THEN "script_click" ELSE "ret"

LEntry(op, round, res) == [op |-> op, round |-> round, res |-> res]

frameVars == << locateFrame, fillFrame, revealFrame, onlineFrame >>
FramesIdle ==
    /\ locateFrame = Idle
    /\ fillFrame = Idle
    /\ revealFrame = Idle
    /\ onlineFrame = Idle

InitLogout ==
    /\ variant \in Variants
    /\ MainQuiet
    /\ FramesIdle
    /\ \E r \in 0..MaxRetries :
          logoutFrame = [pc |-> "for", retries |-> r, round |-> 0,
                         trace |-> << >>, logs |-> << >>, result |-> "none"]
    /\ loggedInFrame = Idle
    /\ openFrame = Idle
    /\ pairFrame = Idle

LogoutUnchanged ==
    UNCHANGED << mainVars, frameVars, loggedInFrame, openFrame, pairFrame >>

\* for i in range(max(1, retries)): ... ; logging.info(...); return False
LFor ==
    /\ logoutFrame.pc = "for"
    /\ logoutFrame' =
          IF logoutFrame.round < Rounds(logoutFrame.retries)
          THEN [logoutFrame EXCEPT !.pc = "reveal"]
          ELSE [logoutFrame EXCEPT !.pc = "ret", !.result = "false",
                                   !.logs = Append(@, "no_logout_button")]
    /\ LogoutUnchanged

\* hover_to_reveal(driver, logout_xpath); its result is dropped
LReveal ==
    /\ logoutFrame.pc = "reveal"
    /\ \E shown \in {"true", "false"} :
          logoutFrame' = [logoutFrame EXCEPT
              !.trace = Append(@, LEntry("reveal", logoutFrame.round, shown)),
              !.pc = "click"]
    /\ LogoutUnchanged

\* if try_click(driver, logout_xpath): log, sleep, return True; an exception
\* try_click does not catch leaves attempt_logout
LClick ==
    /\ logoutFrame.pc = "click"
    /\ \E res \in {"true", "false", "raise"} :
          logoutFrame' = [logoutFrame EXCEPT
              !.trace = Append(@, LEntry("click", logoutFrame.round, res)),
              !.logs = IF res = "true" THEN Append(@, "logout_triggered")
                       ELSE @,
              !.result = IF res = "true" THEN "true"
                         ELSE IF res = "raise" THEN "raised" ELSE @,
              !.pc = AfterClick(res)]
    /\ LogoutUnchanged

\* try: find_element, execute_script("arguments[0].click();"), log, sleep,
\* return True; except Exception: pass
LScriptClick ==
    /\ logoutFrame.pc = "script_click"
    /\ \E res \in {"true", "false"} :
          logoutFrame' = [logoutFrame EXCEPT
              !.trace = Append(@, LEntry("script_click", logoutFrame.round,
                                         res)),
              !.logs = IF res = "true" THEN Append(@, "logout_triggered_js")
                       ELSE @,
              !.result = IF res = "true" THEN "true" ELSE @,
              !.pc = IF res = "true" THEN "ret" ELSE "pause"]
    /\ LogoutUnchanged

\* time.sleep(...) at the end of a round
LPause ==
    /\ logoutFrame.pc = "pause"
    /\ logoutFrame' = [logoutFrame EXCEPT !.round = @ + 1, !.pc = "for"]
    /\ LogoutUnchanged

NextLogout ==
    \/ LFor
    \/ LReveal
    \/ LClick
    \/ LScriptClick
    \/ LPause

SpecLogout == InitLogout /\ [][NextLogout]_vars

LogoutBlock == << "reveal", "click", "script_click" >>

\* C21: attempt_logout makes at most max(1, retries) rounds; a round is a
\* reveal, then the normal click, then the script click only after the
\* normal click failed; a click that succeeds is the last thing done and
\* gives True; False is returned only when every round failed both clicks.
C21_LogoutRounds ==
    logoutFrame.pc # "idle"
        => LET tr == logoutFrame.trace
               n == Len(tr)
               most == IF logoutFrame.retries > 1 THEN logoutFrame.retries
                       ELSE 1
           IN  /\ \A i \in 1..n : tr[i].round < most
               /\ \A i \in 1..n, j \in 1..n :
                     i < j => tr[i].round <= tr[j].round
               /\ \A i \in 1..n :
                     LET k == Cardinality({j \in 1..(i - 1) :
                                              tr[j].round = tr[i].round})
                     IN  k < Len(LogoutBlock) /\ tr[i].op = LogoutBlock[k + 1]
               /\ \A i \in 1..n :
                     tr[i].op = "script_click"
                        => tr[i - 1] = LEntry("click", tr[i].round, "false")
               /\ \A i \in 1..n :
                     (tr[i].op # "reveal" /\ tr[i].res # "false")
                        => /\ i = n
                           /\ logoutFrame.pc = "ret"
                           /\ logoutFrame.result =
                                 (IF tr[i].res = "true" THEN "true"
                                  ELSE "raised")
               /\ logoutFrame.result = "true"
                     => n > 0 /\ tr[n].op # "reveal" /\ tr[n].res = "true"
               /\ logoutFrame.result = "false"
                     => \A r \in 0..(most - 1) :
                           /\ \E i \in 1..n : tr[i] = LEntry("click", r, "false")
                           /\ \E i \in 1..n :
                                 tr[i] = LEntry("script_click", r, "false")

C21_Witness ==
    /\ logoutFrame.pc = "ret"
    /\ logoutFrame.result = "true"
    /\ logoutFrame.retries = 3
    /\ logoutFrame.round = 2
    /\ logoutFrame.trace[Len(logoutFrame.trace)].op = "script_click"

----------------------------------------------------------------------------
(* Claims on the orchestrator, continued                                   *)

\* the driver calls of the record, without the log records
OpIdx == {i \in 1..Len(events) : events[i].op # "log"}
\* the next driver call after position i, 0 when there is none
NextOp(i) ==
    IF \E k \in OpIdx : k > i
    THEN CHOOSE k \in OpIdx : k > i /\ \A m \in OpIdx : m > i => k <= m
    ELSE 0
FillIdx == Idx("fill_username") \cup Idx("fill_password")

\* C22: in a run that detected LoggedIn, every fill comes after a logout,
\* then a fresh-context open, then a wait for the login form that found it;
\* the call that follows a returned attempt_logout is the fresh-context open
\* whatever the logout returned; and when the fills and the submit click
\* succeed and a reachability probe answers online the run ends Recovered.
C22_LoggedInLogoutReopenLogin ==
    Did("is_logged_in", "true")
        => /\ \A f \in FillIdx :
                 \E i \in Idx("is_logged_in"), j \in Idx("attempt_logout"),
                    k \in Idx("open_portal_fresh_tab"),
                    w \in Idx("wait_for_login_form") :
                    /\ events[i].res = "true"
                    /\ events[w].res = "true"
                    /\ i < j /\ j < k /\ k < w /\ w < f
           /\ \A j \in Idx("attempt_logout") :
                 events[j].res # "raise"
                    => IF NextOp(j) = 0
                       THEN pc \in {"open_li", "open1", "open2"}
                       ELSE events[NextOp(j)].op = "open_portal_fresh_tab"
           /\ (/\ Did("fill_username", "true")
               /\ Did("fill_password", "true")
               /\ Did("click_submit", "true"))
                 => /\ pc \in {"poll", "finally", "sleep", "except"}
                    /\ lastPoll = "online"
                          => /\ outcome = "recovered"
                             /\ Logged("connectivity_recovered")

C22_Witness ==
    /\ Did("is_logged_in", "true")
    /\ Did("attempt_logout", "false")
    /\ Did("open_portal_fresh_tab", "new_tab")
    /\ Did("click_submit", "true")
    /\ outcome = "recovered"
    /\ pc = "sleep"

\* C23: in one run attempt_logout is called at most twice, the portal is
\* opened in a fresh context at most twice, the submit control is clicked at
\* most once, and no logout and no fresh-context open follows a fill_field
\* call.
C23_NoLoginLogoutBounce ==
    /\ Cardinality(Idx("attempt_logout")) <= 2
    /\ Cardinality(Idx("open_portal_fresh_tab")) <= 2
    /\ Cardinality(Idx("click_submit")) <= 1
    /\ \A f \in FillIdx :
          \A i \in Idx("attempt_logout") \cup Idx("open_portal_fresh_tab") :
             i < f

C23_Witness ==
    /\ Cardinality(Idx("attempt_logout")) = 2
    /\ Cardinality(Idx("open_portal_fresh_tab")) = 2
    /\ Did("click_submit", "true")
    /\ pc = "sleep"

\* the fills and submit clicks in a record
FillsAndClicks(ev) ==
    Cardinality({i \in 1..Len(ev) :
                    ev[i].op \in {"fill_username", "fill_password",
                                  "click_submit"}})

\* C24: the polling that follows a successful submit click makes at least
\* one reachability probe before it ends, ends at the first probe that
\* answers online, starts no probe once the ceiling has elapsed, and while
\* it runs no field is filled and submit is not clicked again.
C24_PollingAfterSubmit ==
    [][pc = "poll"
          => /\ Did("click_submit", "true")
             /\ FillsAndClicks(events') = FillsAndClicks(events)
             /\ (pc' # "poll" /\ ~exc') => lastPoll' # "none"
             /\ lastPoll' = "online" => pc' = "finally"
             /\ lastPoll # "online"
             /\ elapsed >= PollCeilingTicks
                   => /\ pc' = "finally"
                      /\ UNCHANGED << lastPoll, elapsed, pollFailLogged,
                                      events >>]_vars

C24_Witness ==
    /\ pc = "finally"
    /\ Did("click_submit", "true")
    /\ lastPoll = "online"
    /\ elapsed >= 2 * PollSleepTicks
    /\ outcome = "recovered"

\* C25: a call of wait_for_login_form or is_login_form_present that returns
\* gives True exactly when the page has both the username anchor and the
\* password anchor, so False with one of them missing, and a returned False
\* raises nothing.
C25_FormProbeIffBothAnchors ==
    [][(/\ Len(events') > Len(events)
        /\ events'[Len(events) + 1].op \in FormProbes
        /\ events'[Len(events) + 1].res # "raise")
          => /\ (events'[Len(events) + 1].res = "true")
                   <=> (page.userAnchor /\ page.passAnchor)
             /\ (events'[Len(events) + 1].res = "false")
                   <=> ~(page.userAnchor /\ page.passAnchor)
             /\ ~exc'
             /\ pc' # "except"]_vars

C25_Witness ==
    /\ pc = "logout2"
    /\ Did("wait_for_login_form", "false")
    /\ page.userAnchor
    /\ ~page.passAnchor

----------------------------------------------------------------------------
(* is_logged_in and the branch handle_portal_login takes on its result; the *)
(* logout control may show or hide again between the reveal and the check   *)

\* what is_logged_in returns from the reveal's result and the visibility wait
LoggedInResult_FromReveal(revealed, visible) == revealed
LoggedInResult(revealed, visible) == visible

\* the statement handle_portal_login goes to on the result of is_logged_in
LoggedInBranch(v, res) ==
    IF res = "raised" THEN "finally"
    ELSE IF res = "true" THEN "attempt_logout"
    ELSE IF v = "mac" THEN "is_login_form_present"
    ELSE "open_portal_fresh_tab"

InitLoggedIn ==
    /\ variant \in Variants
    /\ MainQuiet
    /\ FramesIdle
    /\ \E st \in LogoutStates :
          loggedInFrame = [pc |-> "call", logout |-> st, revealed |-> "none",
                           trace |-> << >>, result |-> "none",
                           next |-> "none"]
    /\ logoutFrame = Idle
    /\ openFrame = Idle
    /\ pairFrame = Idle

LoggedInUnchanged ==
    UNCHANGED << mainVars, frameVars, logoutFrame, openFrame, pairFrame >>

\* the states a control in state st can be in a moment later
Later(st) == IF st = "absent" THEN {"absent"} ELSE {"hidden", "visible"}

\* hover_to_reveal(driver, logout_xpath): a statement of its own
GReveal ==
    /\ loggedInFrame.pc = "call"
    /\ \E works \in BOOLEAN :
         LET p == hover_to_reveal(
                     [BlankPage EXCEPT !.logout = loggedInFrame.logout], works)
         IN  loggedInFrame' = [loggedInFrame EXCEPT
                !.logout = p.logout,
                !.revealed = IF logout_visible(p) THEN "true" ELSE "false",
                !.trace = Append(@, "hover_to_reveal"),
                !.pc = "check"]
    /\ LoggedInUnchanged

\* WebDriverWait(driver, quick_timeout_s).until(visibility_of_element_located)
\* return True; except TimeoutException: return False
GCheck ==
    /\ loggedInFrame.pc = "check"
    /\ \E st \in Later(loggedInFrame.logout), fault \in BOOLEAN :
         LET visible == st = "visible"
         IN  loggedInFrame' = [loggedInFrame EXCEPT
                !.logout = st,
                !.trace = Append(@, "visibility_wait"),
                !.result =
                    IF fault THEN "raised"
                    ELSE IF LoggedInResult(loggedInFrame.revealed = "true",
                                           visible)
                    THEN "true" ELSE "false",
                !.pc = "branch"]
    /\ LoggedInUnchanged

\* if is_logged_in(driver, ...): ... else: ...
GBranch ==
    /\ loggedInFrame.pc = "branch"
    /\ loggedInFrame' = [loggedInFrame EXCEPT
          !.next = LoggedInBranch(variant, loggedInFrame.result),
          !.pc = "done"]
    /\ LoggedInUnchanged

\* the same probe in a later run, on the page as it is then
GCallAgain ==
    /\ loggedInFrame.pc = "done"
    /\ \E st \in LogoutStates :
          loggedInFrame' = [pc |-> "call", logout |-> st, revealed |-> "none",
                            trace |-> << >>, result |-> "none",
                            next |-> loggedInFrame.next]
    /\ LoggedInUnchanged

NextLoggedIn ==
    \/ GReveal
    \/ GCheck
    \/ GBranch
    \/ GCallAgain

SpecLoggedIn == InitLoggedIn /\ [][NextLoggedIn]_vars

\* C26: is_logged_in runs the reveal before the visibility check; what it
\* returns is the outcome of the check alone, whatever the reveal returned;
\* a check that times out gives False, on which the run takes its next
\* branch and does not fail.
C26_RevealThenCheckAlone ==
    loggedInFrame.pc # "idle"
        => /\ loggedInFrame.trace \in
                 {<< >>, << "hover_to_reveal" >>,
                  << "hover_to_reveal", "visibility_wait" >>}
           /\ (loggedInFrame.pc \in {"branch", "done"}
                  /\ loggedInFrame.result # "raised")
                 => /\ Len(loggedInFrame.trace) = 2
                    /\ (loggedInFrame.result = "true")
                          <=> (loggedInFrame.logout = "visible")
                    /\ (loggedInFrame.result = "false")
                          <=> (loggedInFrame.logout # "visible")
           /\ (loggedInFrame.pc = "done" /\ loggedInFrame.result = "false")
                 => loggedInFrame.next \in
                       {"is_login_form_present", "open_portal_fresh_tab"}

C26_Witness ==
    /\ loggedInFrame.pc = "done"
    /\ loggedInFrame.revealed = "true"
    /\ loggedInFrame.result = "false"
    /\ loggedInFrame.next = "is_login_form_present"

----------------------------------------------------------------------------
(* open_portal_fresh_tab on the windows of the one browser session of a run *)

\* windows the session has when the first call is made
MaxTabs == 2
\* calls of open_portal_fresh_tab in one run
MaxOpenCalls == 2

\* driver.switch_to.window(driver.window_handles[-1]): the window switched to
SwitchTarget_Stay(handles, current) == current
SwitchTarget(handles, current) == handles

OpenEntry(v, handles, current, sess, results) ==
    [pc |-> "call", handles |-> handles, current |-> current,
     handles0 |-> handles, current0 |-> current, loadedIn |-> 0,
     sessions |-> sess, trace |-> << >>, logs |-> << >>,
     result |-> "none", results |-> results]

InitOpen ==
    /\ variant \in Variants
    /\ MainQuiet
    /\ FramesIdle
    /\ \E h \in 1..MaxTabs : \E c \in 1..h :
          openFrame = OpenEntry(variant, h, c, 1, << >>)
    /\ logoutFrame = Idle
    /\ loggedInFrame = Idle
    /\ pairFrame = Idle

OpenUnchanged ==
    UNCHANGED << mainVars, frameVars, logoutFrame, loggedInFrame, pairFrame >>

\* driver.execute_script("window.open(arguments[0], '_blank');", PORTAL_URL)
TOpen ==
    /\ openFrame.pc = "call"
    /\ LET f == [openFrame EXCEPT !.trace = Append(@, "window_open")]
       IN  \/ openFrame' = [f EXCEPT !.handles = @ + 1,
                                     !.loadedIn = openFrame.handles + 1,
                                     !.pc = "switch"]
           \/ openFrame' = [f EXCEPT !.pc = "fallback"]
           \/ openFrame' = [f EXCEPT !.pc = "ret", !.result = "raised"]
    /\ OpenUnchanged

\* driver.switch_to.window(driver.window_handles[-1]); logging.info(...)
TSwitch ==
    /\ openFrame.pc = "switch"
    /\ LET f == [openFrame EXCEPT !.trace = Append(@, "switch_to_window")]
       IN  \/ openFrame' = [f EXCEPT
                 !.current = SwitchTarget(openFrame.handles, openFrame.current),
                 !.logs = Append(@, "opened_new_tab"),
                 !.pc = "ret", !.result = "new_tab"]
           \/ openFrame' = [f EXCEPT !.pc = "fallback"]
           \/ openFrame' = [f EXCEPT !.pc = "ret", !.result = "raised"]
    /\ OpenUnchanged

\* except WebDriverException: logging.warning(...); driver.get(PORTAL_URL)
TFallback ==
    /\ openFrame.pc = "fallback"
    /\ LET f == [openFrame EXCEPT !.trace = Append(@, "get"),
                                  !.logs = Append(@, "new_tab_failed")]
       IN  \/ openFrame' = [f EXCEPT !.loadedIn = openFrame.current,
                                     !.pc = "ret", !.result = "reload"]
           \/ openFrame' = [f EXCEPT !.pc = "ret", !.result = "raised"]
    /\ OpenUnchanged

\* back in handle_portal_login
TReturn ==
    /\ openFrame.pc = "ret"
    /\ openFrame' = [openFrame EXCEPT !.results = Append(@, openFrame.result),
                                      !.pc = "done"]
    /\ OpenUnchanged

\* the second open_portal_fresh_tab of the run, in the same session
TCallAgain ==
    /\ openFrame.pc = "done"
    /\ openFrame.result # "raised"
    /\ Len(openFrame.results) < MaxOpenCalls
    /\ openFrame' = OpenEntry(variant, openFrame.handles, openFrame.current,
                              openFrame.sessions, openFrame.results)
    /\ OpenUnchanged

NextOpen ==
    \/ TOpen
    \/ TSwitch
    \/ TFallback
    \/ TReturn
    \/ TCallAgain

SpecOpen == InitOpen /\ [][NextOpen]_vars

\* C27: a call of open_portal_fresh_tab that returns has either opened the
\* portal in a new window and switched to that window, or, after a driver
\* fault of the opening or of the switch, reloaded the portal in the window
\* that was current at the call; the session stays the one session of the
\* run.
C27_FreshTabOrReload ==
    openFrame.pc # "idle"
        => /\ openFrame.sessions = 1
           /\ openFrame.pc \in {"ret", "done"}
                 => /\ openFrame.result = "new_tab"
                       => /\ openFrame.handles = openFrame.handles0 + 1
                          /\ openFrame.current = openFrame.handles
                          /\ openFrame.loadedIn = openFrame.current
                          /\ openFrame.trace =
                                << "window_open", "switch_to_window" >>
                    /\ openFrame.result = "reload"
                       => /\ openFrame.current = openFrame.current0
                          /\ openFrame.loadedIn = openFrame.current0
                          /\ openFrame.trace \in
                                {<< "window_open", "get" >>,
                                 << "window_open", "switch_to_window",
                                    "get" >>}
                    /\ openFrame.result \in {"new_tab", "reload", "raised"}

C27_Witness ==
    /\ openFrame.pc = "done"
    /\ openFrame.results = << "new_tab", "reload" >>
    /\ openFrame.trace = << "window_open", "switch_to_window", "get" >>

\* C28: every run of handle_portal_login ends: it makes at most 15 driver
\* calls, its polling clock stays within the ceiling plus one probe and one
\* sleep, and a run that has started eventually returns or propagates,
\* given that every call it makes returns or raises.
C28_RunTerminates ==
    /\ [](Cardinality(OpIdx) <= 15)
    /\ [](elapsed < PollCeilingTicks + MaxProbeTicks + PollSleepTicks)
    /\ (activeRuns = 1) ~> (activeRuns = 0)

C28_Witness ==
    /\ pc = "sleep"
    /\ activeRuns = 0
    /\ runs = 1
    /\ outcome = "unrecovered"
    /\ Cardinality(Idx("attempt_logout")) = 2

----------------------------------------------------------------------------
(* handle_portal_login of main.py and of main_mac.py run side by side, from *)
(* driver.get on, against one environment: the page shown first and after   *)
(* each fresh-context open, the answer of the logout, and how the fills,    *)
(* the submit click and the polling end                                     *)

\* pages that show the login form or not, and the logout control or not
PairPages == {p \in Pages : p.userAnchor = p.passAnchor /\ p.logout # "hidden"}
\* a run opens the portal at most twice after driver.get
PairPageSeqs == [1..3 -> PairPages]
Endings == {"fill_username_failed", "fill_password_failed", "submit_failed",
            "recovered", "unrecovered"}
PairEnvs == [pages : PairPageSeqs, logoutOk : BOOLEAN, ending : Endings]

RunStart == [pc |-> "first_probe", pg |-> 1, acts |-> << >>, out |-> "none"]

\* one statement of handle_portal_login of variant v in state st
RunStep(v, st, e) ==
    LET p == e.pages[st.pg]
        act(a) == Append(st.acts, a)
    IN  IF st.pc \in {"first_probe", "second_probe"}
        THEN LET yes == IF ProbeAt(v, st.pc) = "is_logged_in"
                        THEN logout_visible(p)
                        ELSE is_login_form_present(p)
             IN  [st EXCEPT !.pc =
                    IF yes THEN (IF ProbeAt(v, st.pc) = "is_logged_in"
                                 THEN "logout_li" ELSE "fill_user")
                    ELSE IF st.pc = "first_probe" THEN "second_probe"
                    ELSE "open1"]
        ELSE IF st.pc \in {"logout_li", "logout2"}
        THEN [st EXCEPT !.acts = act("logout"),
                        !.pc = AfterLogout(v, st.pc, e.logoutOk)]
        ELSE IF st.pc \in {"open_li", "open1", "open2"}
        THEN [st EXCEPT !.acts = act("open_fresh"),
                        !.pg = @ + 1,
                        !.pc = IF st.pc = "open_li" THEN "wait_li"
                               ELSE IF st.pc = "open1" THEN "wait1"
                               ELSE "wait2"]
        ELSE IF st.pc = "wait1"
        THEN [st EXCEPT !.pc = AfterFirstWait(wait_for_login_form(p))]
        ELSE IF st.pc \in {"wait_li", "wait2"}
        THEN [st EXCEPT !.pc = AfterLastWait(wait_for_login_form(p)),
                        !.out = IF wait_for_login_form(p) THEN @
                                ELSE "no_login_form"]
        ELSE IF st.pc = "fill_user"
        THEN [st EXCEPT !.acts = act("fill_username"),
                        !.pc = StepAfter(e.ending # "fill_username_failed",
                                         "fill_pass"),
                        !.out = IF e.ending = "fill_username_failed"
                                THEN e.ending ELSE @]
        ELSE IF st.pc = "fill_pass"
        THEN [st EXCEPT !.acts = act("fill_password"),
                        !.pc = StepAfter(e.ending # "fill_password_failed",
                                         "submit"),
                        !.out = IF e.ending = "fill_password_failed"
                                THEN e.ending ELSE @]
        ELSE IF st.pc = "submit"
        THEN [st EXCEPT !.acts = act("submit"),
                        !.pc = StepAfter(e.ending # "submit_failed", "poll"),
                        !.out = IF e.ending = "submit_failed"
                                THEN e.ending ELSE @]
        ELSE IF st.pc = "poll"
        THEN [st EXCEPT !.acts = act("poll"),
                        !.pc = "finally",
                        !.out = e.ending]
        ELSE st

InitPair ==
    /\ variant \in Variants
    /\ MainQuiet
    /\ FramesIdle
    /\ \E e \in PairEnvs :
          pairFrame = [pc |-> "run", env |-> e, win |-> RunStart,
                       mac |-> RunStart]
    /\ logoutFrame = Idle
    /\ loggedInFrame = Idle
    /\ openFrame = Idle

PairUnchanged ==
    UNCHANGED << mainVars, frameVars, logoutFrame, loggedInFrame, openFrame >>

\* both runs make their next statement
PairStep ==
    /\ pairFrame.pc = "run"
    /\ ~(pairFrame.win.pc = "finally" /\ pairFrame.mac.pc = "finally")
    /\ pairFrame' = [pairFrame EXCEPT
          !.win = RunStep("win", @, pairFrame.env),
          !.mac = RunStep("mac", @, pairFrame.env)]
    /\ PairUnchanged

\* both runs are in their finally clause
PairDone ==
    /\ pairFrame.pc = "run"
    /\ pairFrame.win.pc = "finally"
    /\ pairFrame.mac.pc = "finally"
    /\ pairFrame' = [pairFrame EXCEPT !.pc = "done"]
    /\ PairUnchanged

NextPair ==
    \/ PairStep
    \/ PairDone

SpecPair == InitPair /\ [][NextPair]_vars

\* the first page shows the login form and the logout control
FormAndLoggedIn(e) ==
    e.pages[1].userAnchor /\ e.pages[1].logout = "visible"
\* the first page shows the logout control and no form, and the page opened
\* after the logout shows no form either
LoggedInThenNoForm(e) ==
    /\ ~e.pages[1].userAnchor
    /\ e.pages[1].logout = "visible"
    /\ ~e.pages[2].userAnchor

\* C29 (as claimed): against the same environment the runs of main.py and
\* of main_mac.py perform the same sequence of logout, open-fresh, fill,
\* submit and poll actions and end in the same outcome.
C29_VariantsEquivalent ==
    pairFrame.pc = "done"
        => /\ pairFrame.win.acts = pairFrame.mac.acts
           /\ pairFrame.win.out = pairFrame.mac.out

\* C29 (amended): the two runs perform the same actions and end alike
\* except in two situations.  On a first page showing both the login form
\* and the logout control main.py fills at once and main_mac.py logs out
\* and reopens first.  On a first page showing the logout control and no
\* form, when the page opened after the logout shows no form, main.py makes
\* a second logout-and-reopen cycle and main_mac.py gives up.
C29_VariantsAgreeButTwoCases ==
    pairFrame.pc = "done"
        => LET e == pairFrame.env
               w == pairFrame.win
               m == pairFrame.mac
           IN  /\ (~FormAndLoggedIn(e) /\ ~LoggedInThenNoForm(e))
                     => w.acts = m.acts /\ w.out = m.out
               /\ FormAndLoggedIn(e)
                     => /\ w.acts[1] = "fill_username"
                        /\ SubSeq(m.acts, 1, 2) = << "logout", "open_fresh" >>
               /\ LoggedInThenNoForm(e)
                     => /\ SubSeq(w.acts, 1, 4) =
                              << "logout", "open_fresh", "logout",
                                 "open_fresh" >>
                        /\ m.acts = << "logout", "open_fresh" >>
                        /\ m.out = "no_login_form"

C29_Witness ==
    /\ pairFrame.pc = "done"
    /\ ~FormAndLoggedIn(pairFrame.env)
    /\ pairFrame.env.pages[1].logout = "visible"
    /\ pairFrame.win.acts = << "logout", "open_fresh", "fill_username",
                               "fill_password", "submit", "poll" >>
    /\ pairFrame.mac.acts = pairFrame.win.acts
    /\ pairFrame.mac.out = "recovered"

====
